---- MODULE Spec2Model ----
(***************************************************************************)
(* The multi-elevator dispatch core (classes Lift and ElevatorSystem):     *)
(* request admission, time-to-reach estimation, direction update, the      *)
(* one-floor move of a tick, and the selection loop of requestLift.        *)
(* Lift indices are 0-based as in the source; lifts[i + 1] is lift i.      *)
(***************************************************************************)
EXTENDS Integers, Sequences, FiniteSets, TLC

\* Bounds of the model.
MaxFloors == 3
MaxLifts == 2
MaxPending == 2
MaxLog == 6
TallFloors == 5
QueryFloors == 2
DrainFloors == 3

\* Program constants.
Capacity == 10
ScenarioFloors == 6
ScenarioLifts == 2

VARIABLES
    totalFloors,  \* ElevatorSystem.totalFloors
    lifts,        \* ElevatorSystem.lifts: sequence of Lift objects
    returned,     \* value returned by the last call: <<>> for a void call, <<n>> for requestLift
    log,          \* history: the calls made since init (kept by HistorySpec only)
    ledger        \* history: per lift, the requests committed to it (kept by HistorySpec only)

vars == <<totalFloors, lifts, returned, log, ledger>>

----------------------------------------------------------------------------
\* Extended numbers for Math.max / Math.min of an empty list and for Infinity.
\* filter is SelectSeq, some is \E over the indices, map is a function over them.

Infinity == <<1, 0>>
NegInfinity == <<-1, 0>>
Fin(n) == <<0, n>>

Less(a, b) == a[1] < b[1] \/ (a[1] = 0 /\ b[1] = 0 /\ a[2] < b[2])

Max2(a, b) == IF a >= b THEN a ELSE b
Min2(a, b) == IF a <= b THEN a ELSE b
Abs(n) == IF n < 0 THEN -n ELSE n

RECURSIVE MathMax(_)
MathMax(s) == IF s = <<>> THEN NegInfinity
              ELSE LET rest == MathMax(Tail(s))
                   IN IF Less(Fin(Head(s)), rest) THEN rest ELSE Fin(Head(s))

RECURSIVE MathMin(_)
MathMin(s) == IF s = <<>> THEN Infinity
              ELSE LET rest == MathMin(Tail(s))
                   IN IF Less(rest, Fin(Head(s))) THEN rest ELSE Fin(Head(s))

----------------------------------------------------------------------------
\* class Lift

Request(start, dest) == [start |-> start, dest |-> dest]

Lift(id, floors) ==
    [id |-> id, totalFloors |-> floors, currentFloor |-> 0, direction |-> "I",
     requests |-> <<>>, passengers |-> 0]

isIdle(l) == l.direction = "I" /\ Len(l.requests) = 0

\* Mutant: a lift standing on the start floor counts as having passed it (>= for >, <= for <).
directionAdmitsStrictlyAhead(l, start, dest) ==
    LET requestGoingUp == start < dest
        liftGoingUp == l.direction = "U"
    IN IF liftGoingUp /\ requestGoingUp
       THEN ~(l.currentFloor >= start)
       ELSE IF ~liftGoingUp /\ ~requestGoingUp
       THEN ~(l.currentFloor <= start)
       ELSE TRUE

\* canAddRequest past its capacity and idle checks: the direction rules.
directionAdmits(l, start, dest) ==
    LET requestGoingUp == start < dest
        liftGoingUp == l.direction = "U"
    IN IF liftGoingUp /\ requestGoingUp
       THEN ~(l.currentFloor > start)
       ELSE IF ~liftGoingUp /\ ~requestGoingUp
       THEN ~(l.currentFloor < start)
       ELSE LET isOpposite(r) == (r.start < r.dest) # requestGoingUp
                goesUp(r) == r.start < r.dest
                goesDown(r) == r.start > r.dest
                top(r) == Max2(r.start, r.dest)
                bottom(r) == Min2(r.start, r.dest)
                hasOppositeDirectionRequests ==
                    \E k \in 1..Len(l.requests) : isOpposite(l.requests[k])
                maxFloorInCurrentDirection ==
                    IF liftGoingUp
                    THEN MathMax([k \in 1..Len(SelectSeq(l.requests, goesUp)) |->
                                     top(SelectSeq(l.requests, goesUp)[k])])
                    ELSE MathMin([k \in 1..Len(SelectSeq(l.requests, goesDown)) |->
                                     bottom(SelectSeq(l.requests, goesDown)[k])])
            IN IF hasOppositeDirectionRequests
               THEN IF liftGoingUp /\ requestGoingUp
                       /\ Less(maxFloorInCurrentDirection, Fin(start))
                    THEN FALSE
                    ELSE IF ~liftGoingUp /\ ~requestGoingUp
                            /\ Less(Fin(start), maxFloorInCurrentDirection)
                    THEN FALSE
                    ELSE TRUE
               ELSE TRUE

\* Mutant: the capacity check off by one (> for >=).
canAddRequestOverCapacity(l, start, dest) ==
    IF l.passengers > Capacity THEN FALSE
    ELSE IF isIdle(l) THEN TRUE
    ELSE directionAdmits(l, start, dest)

\* Mutant: the idle check comes before the capacity check.
canAddRequestIdleFirst(l, start, dest) ==
    IF isIdle(l) THEN TRUE
    ELSE IF l.passengers >= Capacity THEN FALSE
    ELSE directionAdmits(l, start, dest)

\* Mutant: the direction rules left out.
canAddRequestAnywhere(l, start, dest) ==
    IF l.passengers >= Capacity THEN FALSE ELSE TRUE

\* Mutant: the idle check left out.
canAddRequestWithoutIdleCheck(l, start, dest) ==
    IF l.passengers >= Capacity THEN FALSE
    ELSE directionAdmits(l, start, dest)

canAddRequest(l, start, dest) ==
    IF l.passengers >= Capacity THEN FALSE
    ELSE IF isIdle(l) THEN TRUE
    ELSE directionAdmits(l, start, dest)

\* The loop of calculateTimeToReach over this.requests.
RECURSIVE turnaround(_, _, _)
turnaround(maxFloor, reqs, liftGoingUp) ==
    IF reqs = <<>> THEN maxFloor
    ELSE LET req == Head(reqs)
         IN turnaround(IF liftGoingUp
                       THEN Max2(Max2(maxFloor, req.start), req.dest)
                       ELSE Min2(Min2(maxFloor, req.start), req.dest),
                       Tail(reqs), liftGoingUp)

\* Mutant: the direct distance counts the floor the lift stands on as well.
calculateTimeToReachInclusive(l, start, requestDirection) ==
    IF isIdle(l) THEN Abs(l.currentFloor - start)
    ELSE LET liftGoingUp == l.direction = "U"
             requestGoingUp == requestDirection = "U"
             maxFloor == turnaround(l.currentFloor, l.requests, liftGoingUp)
         IN IF liftGoingUp = requestGoingUp /\ liftGoingUp /\ start >= l.currentFloor
            THEN start - l.currentFloor + 1
            ELSE IF liftGoingUp = requestGoingUp /\ ~liftGoingUp /\ start <= l.currentFloor
            THEN l.currentFloor - start + 1
            ELSE IF liftGoingUp
            THEN (maxFloor - l.currentFloor) + (maxFloor - start)
            ELSE (l.currentFloor - maxFloor) + (start - maxFloor)

calculateTimeToReach(l, start, requestDirection) ==
    IF isIdle(l) THEN Abs(l.currentFloor - start)
    ELSE LET liftGoingUp == l.direction = "U"
             requestGoingUp == requestDirection = "U"
             maxFloor == turnaround(l.currentFloor, l.requests, liftGoingUp)
         IN IF liftGoingUp = requestGoingUp /\ liftGoingUp /\ start >= l.currentFloor
            THEN start - l.currentFloor
            ELSE IF liftGoingUp = requestGoingUp /\ ~liftGoingUp /\ start <= l.currentFloor
            THEN l.currentFloor - start
            ELSE IF liftGoingUp
            THEN (maxFloor - l.currentFloor) + (maxFloor - start)
            ELSE (l.currentFloor - maxFloor) + (start - maxFloor)

\* Mutant: a lift going Up keeps going Up while any request is left.
updateDirectionKeepsGoing(l) ==
    IF Len(l.requests) = 0 THEN [l EXCEPT !.direction = "I"]
    ELSE LET up(r) == r.start > l.currentFloor
                      \/ r.dest > l.currentFloor
                      \/ (r.start < r.dest /\ r.start >= l.currentFloor)
             down(r) == r.start < l.currentFloor
                        \/ r.dest < l.currentFloor
                        \/ (r.start > r.dest /\ r.start <= l.currentFloor)
             hasUpRequests == \E k \in 1..Len(l.requests) : up(l.requests[k])
             hasDownRequests == \E k \in 1..Len(l.requests) : down(l.requests[k])
         IN IF l.direction = "U" THEN [l EXCEPT !.direction = "U"]
            ELSE IF l.direction = "D" /\ hasDownRequests THEN [l EXCEPT !.direction = "D"]
            ELSE IF hasUpRequests THEN [l EXCEPT !.direction = "U"]
            ELSE IF hasDownRequests THEN [l EXCEPT !.direction = "D"]
            ELSE [l EXCEPT !.direction = "I"]

\* Mutant: no hysteresis: down requests win whatever the current direction.
updateDirectionDownFirst(l) ==
    IF Len(l.requests) = 0 THEN [l EXCEPT !.direction = "I"]
    ELSE LET up(r) == r.start > l.currentFloor
                      \/ r.dest > l.currentFloor
                      \/ (r.start < r.dest /\ r.start >= l.currentFloor)
             down(r) == r.start < l.currentFloor
                        \/ r.dest < l.currentFloor
                        \/ (r.start > r.dest /\ r.start <= l.currentFloor)
             hasUpRequests == \E k \in 1..Len(l.requests) : up(l.requests[k])
             hasDownRequests == \E k \in 1..Len(l.requests) : down(l.requests[k])
         IN IF hasDownRequests THEN [l EXCEPT !.direction = "D"]
            ELSE IF hasUpRequests THEN [l EXCEPT !.direction = "U"]
            ELSE [l EXCEPT !.direction = "I"]

\* Mutant: a lift with requests but no work above or below is sent Up.
updateDirectionUpByDefault(l) ==
    IF Len(l.requests) = 0 THEN [l EXCEPT !.direction = "I"]
    ELSE LET up(r) == r.start > l.currentFloor
                      \/ r.dest > l.currentFloor
                      \/ (r.start < r.dest /\ r.start >= l.currentFloor)
             down(r) == r.start < l.currentFloor
                        \/ r.dest < l.currentFloor
                        \/ (r.start > r.dest /\ r.start <= l.currentFloor)
             hasUpRequests == \E k \in 1..Len(l.requests) : up(l.requests[k])
             hasDownRequests == \E k \in 1..Len(l.requests) : down(l.requests[k])
         IN IF l.direction = "U" /\ hasUpRequests THEN [l EXCEPT !.direction = "U"]
            ELSE IF l.direction = "D" /\ hasDownRequests THEN [l EXCEPT !.direction = "D"]
            ELSE IF hasUpRequests THEN [l EXCEPT !.direction = "U"]
            ELSE IF hasDownRequests THEN [l EXCEPT !.direction = "D"]
            ELSE [l EXCEPT !.direction = "U"]

updateDirection(l) ==
    IF Len(l.requests) = 0 THEN [l EXCEPT !.direction = "I"]
    ELSE LET up(r) == r.start > l.currentFloor
                      \/ r.dest > l.currentFloor
                      \/ (r.start < r.dest /\ r.start >= l.currentFloor)
             down(r) == r.start < l.currentFloor
                        \/ r.dest < l.currentFloor
                        \/ (r.start > r.dest /\ r.start <= l.currentFloor)
             hasUpRequests == \E k \in 1..Len(l.requests) : up(l.requests[k])
             hasDownRequests == \E k \in 1..Len(l.requests) : down(l.requests[k])
         IN IF l.direction = "U" /\ hasUpRequests THEN [l EXCEPT !.direction = "U"]
            ELSE IF l.direction = "D" /\ hasDownRequests THEN [l EXCEPT !.direction = "D"]
            ELSE IF hasUpRequests THEN [l EXCEPT !.direction = "U"]
            ELSE IF hasDownRequests THEN [l EXCEPT !.direction = "D"]
            ELSE [l EXCEPT !.direction = "I"]

\* Mutant: the passenger count is not incremented.
addRequestUncounted(l, start, dest) ==
    updateDirection([l EXCEPT !.requests = Append(@, Request(start, dest))])

addRequest(l, start, dest) ==
    updateDirection([l EXCEPT !.requests = Append(@, Request(start, dest)),
                              !.passengers = @ + 1])

\* Mutant: the requests starting on the new floor stay in the list.
moveKeepingPickups(l) ==
    LET floor == IF l.direction = "U" THEN l.currentFloor + 1
                 ELSE IF l.direction = "D" THEN l.currentFloor - 1
                 ELSE l.currentFloor
        arrives(r) == r.dest = floor
        stays(r) == r.dest # floor
        completedRequests == SelectSeq(l.requests, arrives)
    IN updateDirection([l EXCEPT
           !.currentFloor = floor,
           !.passengers = @ - Len(completedRequests),
           !.requests = SelectSeq(@, stays)])

move(l) ==
    LET floor == IF l.direction = "U" THEN l.currentFloor + 1
                 ELSE IF l.direction = "D" THEN l.currentFloor - 1
                 ELSE l.currentFloor
        arrives(r) == r.dest = floor
        stays(r) == r.dest # floor
        notPickup(r) == r.start # floor
        completedRequests == SelectSeq(l.requests, arrives)
    IN updateDirection([l EXCEPT
           !.currentFloor = floor,
           !.passengers = @ - Len(completedRequests),
           !.requests = SelectSeq(SelectSeq(@, stays), notPickup)])

----------------------------------------------------------------------------
\* class ElevatorSystem

\* Mutant: a later lift of equal time replaces the best one (<= for <).
RECURSIVE selectLiftLastOfMinimum(_, _, _, _, _, _)
selectLiftLastOfMinimum(ls, i, bestLift, minTime, startFloor, destinationFloor) ==
    IF ~(i < Len(ls)) THEN bestLift
    ELSE LET lift == ls[i + 1]
             requestDirection == IF startFloor < destinationFloor THEN "U" ELSE "D"
             time == calculateTimeToReach(lift, startFloor, requestDirection)
         IN IF canAddRequest(lift, startFloor, destinationFloor)
               /\ (Less(Fin(time), minTime) \/ Fin(time) = minTime)
            THEN selectLiftLastOfMinimum(ls, i + 1, i, Fin(time), startFloor, destinationFloor)
            ELSE selectLiftLastOfMinimum(ls, i + 1, bestLift, minTime, startFloor,
                                         destinationFloor)

\* Mutant: the loop does not ask canAddRequest.
RECURSIVE selectLiftUnchecked(_, _, _, _, _, _)
selectLiftUnchecked(ls, i, bestLift, minTime, startFloor, destinationFloor) ==
    IF ~(i < Len(ls)) THEN bestLift
    ELSE LET lift == ls[i + 1]
             requestDirection == IF startFloor < destinationFloor THEN "U" ELSE "D"
             time == calculateTimeToReach(lift, startFloor, requestDirection)
         IN IF Less(Fin(time), minTime) \/ (Fin(time) = minTime /\ bestLift = -1)
            THEN selectLiftUnchecked(ls, i + 1, i, Fin(time), startFloor, destinationFloor)
            ELSE selectLiftUnchecked(ls, i + 1, bestLift, minTime, startFloor,
                                     destinationFloor)

\* The selection loop of requestLift from index i on (0-based); yields bestLift.
RECURSIVE selectLift(_, _, _, _, _, _)
selectLift(ls, i, bestLift, minTime, startFloor, destinationFloor) ==
    IF ~(i < Len(ls)) THEN bestLift
    ELSE LET lift == ls[i + 1]
             requestDirection == IF startFloor < destinationFloor THEN "U" ELSE "D"
             time == calculateTimeToReach(lift, startFloor, requestDirection)
         IN IF canAddRequest(lift, startFloor, destinationFloor)
               /\ (Less(Fin(time), minTime) \/ (Fin(time) = minTime /\ bestLift = -1))
            THEN selectLift(ls, i + 1, i, Fin(time), startFloor, destinationFloor)
            ELSE selectLift(ls, i + 1, bestLift, minTime, startFloor, destinationFloor)

\* Mutant: bestLift starts at lift 0 instead of -1.
bestLiftForDefaultFirst(ls, startFloor, destinationFloor) ==
    selectLift(ls, 0, 0, Infinity, startFloor, destinationFloor)

\* requestLift up to its loop's end: bestLift = -1, minTime = Infinity, then the loop.
bestLiftFor(ls, startFloor, destinationFloor) ==
    selectLift(ls, 0, -1, Infinity, startFloor, destinationFloor)

\* Mutant: init without `this.lifts = []`: the new lifts are pushed after the old ones.
initKeepingLifts(floors, n) ==
    /\ totalFloors' = floors
    /\ lifts' = lifts \o [i \in 1..n |-> Lift(i - 1, floors)]
    /\ returned' = <<>>

\* ElevatorSystem.init
init(floors, n) ==
    /\ totalFloors' = floors
    /\ lifts' = [i \in 1..n |-> Lift(i - 1, floors)]
    /\ returned' = <<>>

\* ElevatorSystem.requestLift
requestLift(startFloor, destinationFloor) ==
    LET bestLift == bestLiftFor(lifts, startFloor, destinationFloor)
    IN /\ lifts' = IF bestLift # -1
                   THEN [lifts EXCEPT ![bestLift + 1] =
                            addRequest(@, startFloor, destinationFloor)]
                   ELSE lifts
       /\ returned' = <<bestLift>>
       /\ UNCHANGED totalFloors

\* Mutant: every lift moves the way the first lift is going.
tickInLockstep ==
    /\ lifts' = [i \in 1..Len(lifts) |->
                    move([lifts[i] EXCEPT !.direction = lifts[1].direction])]
    /\ returned' = <<>>
    /\ UNCHANGED totalFloors

\* The loop of tick run over the lifts in the given order of (1-based)
\* indices: each lift.move() in turn, on the array the earlier ones left.
RECURSIVE moveInOrder(_, _)
moveInOrder(ls, order) ==
    IF order = <<>> THEN ls
    ELSE moveInOrder([ls EXCEPT ![Head(order)] = move(ls[Head(order)])], Tail(order))

\* ElevatorSystem.tick
tick ==
    /\ lifts' = [i \in 1..Len(lifts) |-> move(lifts[i])]
    /\ returned' = <<>>
    /\ UNCHANGED totalFloors

\* Mutant: the lifts array is reversed in place before it is mapped.
getLiftStatesReversing ==
    /\ returned' = <<"getLiftStates",
                     [i \in 1..Len(lifts) |-> <<lifts[i].currentFloor, lifts[i].direction>>]>>
    /\ lifts' = [i \in 1..Len(lifts) |-> lifts[Len(lifts) + 1 - i]]
    /\ UNCHANGED totalFloors

\* ElevatorSystem.getLiftStates; the string `${currentFloor}-${direction}` is
\* kept as the pair of its two parts.
getLiftStates ==
    /\ returned' = <<"getLiftStates",
                     [i \in 1..Len(lifts) |-> <<lifts[i].currentFloor, lifts[i].direction>>]>>
    /\ UNCHANGED <<totalFloors, lifts>>

\* ElevatorSystem.getNumberOfPeopleOnLift: this.lifts[liftId]?.passengers || 0
getNumberOfPeopleOnLift(liftId) ==
    /\ returned' = <<"getNumberOfPeopleOnLift",
                     IF liftId \in 0..(Len(lifts) - 1) THEN lifts[liftId + 1].passengers ELSE 0>>
    /\ UNCHANGED <<totalFloors, lifts>>

\* Mutant: a lift found to stop is put in front of the result (unshift for push).
RECURSIVE stoppingLiftsDescending(_, _, _, _, _)
stoppingLiftsDescending(ls, i, result, floor, moveDirection) ==
    IF ~(i < Len(ls)) THEN result
    ELSE LET lift == ls[i + 1]
             willStop == \E k \in 1..Len(lift.requests) :
                             lift.requests[k].start = floor \/ lift.requests[k].dest = floor
         IN IF willStop /\ (moveDirection = "I" \/ lift.direction = moveDirection)
            THEN stoppingLiftsDescending(ls, i + 1, <<i>> \o result, floor, moveDirection)
            ELSE stoppingLiftsDescending(ls, i + 1, result, floor, moveDirection)

\* The loop of getLiftsStoppingOnFloor from index i on (0-based); yields result.
RECURSIVE stoppingLifts(_, _, _, _, _)
stoppingLifts(ls, i, result, floor, moveDirection) ==
    IF ~(i < Len(ls)) THEN result
    ELSE LET lift == ls[i + 1]
             willStop == \E k \in 1..Len(lift.requests) :
                             lift.requests[k].start = floor \/ lift.requests[k].dest = floor
         IN IF willStop /\ (moveDirection = "I" \/ lift.direction = moveDirection)
            THEN stoppingLifts(ls, i + 1, Append(result, i), floor, moveDirection)
            ELSE stoppingLifts(ls, i + 1, result, floor, moveDirection)

\* ElevatorSystem.getLiftsStoppingOnFloor
getLiftsStoppingOnFloor(floor, moveDirection) ==
    /\ returned' = <<"getLiftsStoppingOnFloor",
                     stoppingLifts(lifts, 0, <<>>, floor, moveDirection)>>
    /\ UNCHANGED <<totalFloors, lifts>>

----------------------------------------------------------------------------
\* The caller: any sequence of calls with in-range floors.

Floors == 0..(totalFloors - 1)

RECURSIVE pending(_)
pending(ls) == IF ls = <<>> THEN 0 ELSE Len(Head(ls).requests) + pending(Tail(ls))

Init ==
    /\ totalFloors = 0
    /\ lifts = <<>>
    /\ returned = <<>>
    /\ log = <<>>
    /\ ledger = <<>>

InitSystem ==
    /\ \E n \in 1..MaxLifts : init(MaxFloors, n)
    /\ UNCHANGED <<log, ledger>>

RequestLift ==
    /\ \E s \in Floors, d \in Floors :
          /\ bestLiftFor(lifts, s, d) # -1 => pending(lifts) < MaxPending
          /\ requestLift(s, d)
    /\ UNCHANGED <<log, ledger>>

Tick ==
    /\ tick
    /\ UNCHANGED <<log, ledger>>

Next == InitSystem \/ RequestLift \/ Tick

Spec == Init /\ [][Next]_vars

\* The same caller with a single lift in a taller building.
InitTall ==
    /\ init(TallFloors, 1)
    /\ UNCHANGED <<log, ledger>>

TallNext == InitTall \/ RequestLift \/ Tick

TallSpec == Init /\ [][TallNext]_vars

\* The caller that also asks the introspection queries, in a two-floor building.
Directions == {"U", "D", "I"}

InitQuery ==
    /\ \E n \in 1..MaxLifts : init(QueryFloors, n)
    /\ UNCHANGED <<log, ledger>>

GetLiftStates ==
    /\ getLiftStates
    /\ UNCHANGED <<log, ledger>>

GetNumberOfPeopleOnLift ==
    /\ \E liftId \in 0..Len(lifts) : getNumberOfPeopleOnLift(liftId)
    /\ UNCHANGED <<log, ledger>>

GetLiftsStoppingOnFloor ==
    /\ \E floor \in Floors, moveDirection \in Directions :
          getLiftsStoppingOnFloor(floor, moveDirection)
    /\ UNCHANGED <<log, ledger>>

QueryNext ==
    \/ InitQuery
    \/ RequestLift
    \/ Tick
    \/ GetLiftStates
    \/ GetNumberOfPeopleOnLift
    \/ GetLiftsStoppingOnFloor

QuerySpec == Init /\ [][QueryNext]_vars

\* The caller that counts its ticks: log holds the ticks made since the last
\* init or requestLift, in buildings of one floor and more.
MaxDrainTicks == 2 * (DrainFloors - 1) + 1

InitDrain ==
    /\ \E floors \in 1..DrainFloors, n \in 1..MaxLifts : init(floors, n)
    /\ log' = <<>>
    /\ UNCHANGED ledger

RequestLiftDrain ==
    /\ \E s \in Floors, d \in Floors :
          /\ bestLiftFor(lifts, s, d) # -1 => pending(lifts) < MaxPending
          /\ requestLift(s, d)
    /\ log' = <<>>
    /\ UNCHANGED ledger

TickDrain ==
    /\ Len(log) < MaxDrainTicks
    /\ tick
    /\ log' = Append(log, <<"tick">>)
    /\ UNCHANGED ledger

DrainNext == InitDrain \/ RequestLiftDrain \/ TickDrain

DrainSpec == Init /\ [][DrainNext]_vars

\* The caller of one lift in the taller building that notes the time promised
\* for every pickup ahead of a moving lift: ledger holds, for each request
\* committed to a lift going the request's way with the start floor strictly
\* ahead, the lift, the start floor, the time calculateTimeToReach gave, the
\* ticks still due of it and whether a later request has joined it on the lift.
Promised(l, start, dest) ==
    \/ l.direction = "U" /\ start < dest /\ start > l.currentFloor
    \/ l.direction = "D" /\ ~(start < dest) /\ start < l.currentFloor

Promise(i, l, start, dest) ==
    LET time == calculateTimeToReach(l, start, IF start < dest THEN "U" ELSE "D")
    IN [lift |-> i, start |-> start, time |-> time, due |-> time, joined |-> FALSE]

Pending(promises) ==
    LET due(p) == p.due > 0 IN SelectSeq(promises, due)

Joined(promises, i) ==
    [k \in 1..Len(promises) |->
        IF promises[k].lift = i THEN [promises[k] EXCEPT !.joined = TRUE] ELSE promises[k]]

InitEta ==
    /\ init(TallFloors, 1)
    /\ ledger' = <<>>
    /\ UNCHANGED log

RequestLiftEta ==
    /\ \E s \in Floors, d \in Floors :
          /\ bestLiftFor(lifts, s, d) # -1 => pending(lifts) < MaxPending
          /\ requestLift(s, d)
          /\ ledger' = LET bestLift == bestLiftFor(lifts, s, d)
                       IN IF bestLift = -1 THEN Pending(ledger)
                          ELSE IF Promised(lifts[bestLift + 1], s, d)
                          THEN Append(Joined(Pending(ledger), bestLift + 1),
                                      Promise(bestLift + 1, lifts[bestLift + 1], s, d))
                          ELSE Joined(Pending(ledger), bestLift + 1)
    /\ UNCHANGED log

TickEta ==
    /\ tick
    /\ ledger' = [k \in 1..Len(Pending(ledger)) |->
                     [Pending(ledger)[k] EXCEPT !.due = @ - 1]]
    /\ UNCHANGED log

EtaNext == InitEta \/ RequestLiftEta \/ TickEta

EtaSpec == Init /\ [][EtaNext]_vars

----------------------------------------------------------------------------
\* The inline test script: init(6, 2), then calls drawn from the script's own
\* calls, with the history of the calls and of every committed request kept.

ScenarioCalls == {<<0, 3>>, <<0, 2>>, <<0, 5>>, <<1, 0>>}

Script == << <<"requestLift", 0, 3>>, <<"tick">>, <<"requestLift", 0, 2>>, <<"tick">>,
             <<"requestLift", 0, 5>>, <<"requestLift", 1, 0>> >>

\* A request committed to lift l: picked once the lift has been at its start
\* floor since the commit, dropped once the lift, having picked it, is at its
\* dest floor; listed while it is in the lift's requests list, completed once
\* move has taken it off the list at its dest floor.
Committed(l, start, dest) ==
    [start |-> start, dest |-> dest,
     picked |-> l.currentFloor = start,
     dropped |-> l.currentFloor = start /\ start = dest,
     listed |-> TRUE,
     completed |-> FALSE]

\* The same request once move has brought the lift to `floor`.
Observed(e, floor) ==
    [e EXCEPT !.picked = @ \/ e.start = floor,
              !.dropped = @ \/ ((e.picked \/ e.start = floor) /\ e.dest = floor),
              !.listed = @ /\ e.dest # floor /\ e.start # floor,
              !.completed = @ \/ (e.listed /\ e.dest = floor)]

Riding(entries) == {k \in 1..Len(entries) : entries[k].picked /\ ~entries[k].dropped}

LoggedInit ==
    /\ lifts = <<>>
    /\ init(ScenarioFloors, ScenarioLifts)
    /\ log' = <<>>
    /\ ledger' = [i \in 1..ScenarioLifts |-> <<>>]

LoggedRequestLift ==
    /\ lifts # <<>>
    /\ Len(log) < MaxLog
    /\ \E c \in ScenarioCalls :
          /\ requestLift(c[1], c[2])
          /\ log' = Append(log, <<"requestLift", c[1], c[2]>>)
          /\ ledger' = LET bestLift == bestLiftFor(lifts, c[1], c[2])
                       IN IF bestLift # -1
                          THEN [ledger EXCEPT ![bestLift + 1] =
                                   Append(@, Committed(lifts[bestLift + 1], c[1], c[2]))]
                          ELSE ledger

LoggedTick ==
    /\ lifts # <<>>
    /\ Len(log) < MaxLog
    /\ tick
    /\ log' = Append(log, <<"tick">>)
    /\ ledger' = [i \in 1..Len(ledger) |->
                     [k \in 1..Len(ledger[i]) |->
                         Observed(ledger[i][k], move(lifts[i]).currentFloor)]]

HistoryNext == LoggedInit \/ LoggedRequestLift \/ LoggedTick

HistorySpec == Init /\ [][HistoryNext]_vars

----------------------------------------------------------------------------
\* Claims.

Ids == 1..Len(lifts)

\* C1: in every reachable state every lift's direction is Idle if and only
\* if its requests list is empty.
IdleIffNoRequests ==
    \A i \in Ids : (lifts[i].direction = "I") <=> (lifts[i].requests = <<>>)

\* C2: round trip: once the ticks have emptied a lift's requests list and
\* left it Idle, its passenger count is back to 0.
RoundTripEndsWithNoPassengers ==
    \A i \in Ids :
        (lifts[i].direction = "I" /\ lifts[i].requests = <<>>) => lifts[i].passengers = 0

\* C3: each lift's passenger count is the number of requests committed to it
\* that have been picked up and not yet dropped off.
PassengerCountIsRiders ==
    \A i \in 1..Len(ledger) : lifts[i].passengers = Cardinality(Riding(ledger[i]))

\* C4: every lift's passenger count is an integer between 0 and the
\* capacity, in every reachable state.
PassengersWithinCapacity ==
    \A i \in Ids : lifts[i].passengers \in 0..Capacity

\* Every lift is full and a request has just been turned away.
RejectedAtCapacity ==
    /\ Ids # {}
    /\ returned = <<-1>>
    /\ \A i \in Ids : lifts[i].passengers = Capacity

\* C5: a tick changes every lift's floor by at most one and leaves it within
\* [0, totalFloors - 1].
TickMovesAtMostOneFloorInRange ==
    [][tick => \A i \in Ids :
                  /\ Abs(lifts'[i].currentFloor - lifts[i].currentFloor) <= 1
                  /\ lifts'[i].currentFloor \in Floors]_vars

\* A tick has brought a lift to the top floor while another request still
\* calls it back down.
TickReachedTopFloor ==
    /\ returned = <<>>
    /\ \E i \in Ids : /\ lifts[i].currentFloor = totalFloors - 1
                      /\ lifts[i].direction = "D"

\* The time to reach startFloor of lift i (1-based) for a request to destinationFloor.
TimeOf(i, startFloor, destinationFloor) ==
    calculateTimeToReach(lifts[i], startFloor,
                         IF startFloor < destinationFloor THEN "U" ELSE "D")

Eligible(startFloor, destinationFloor) ==
    {i \in Ids : canAddRequest(lifts[i], startFloor, destinationFloor)}

\* C6: a successful requestLift returns the lowest-indexed lift among the
\* eligible lifts of minimum time to reach, the request direction being Up
\* when start < dest and Down otherwise.
ReturnsFirstEligibleOfMinimumTime ==
    [][\A s \in Floors, d \in Floors :
          (requestLift(s, d) /\ returned' # <<-1>>) =>
              LET b == returned'[1] + 1
              IN /\ b \in Eligible(s, d)
                 /\ \A j \in Eligible(s, d) :
                       /\ TimeOf(b, s, d) <= TimeOf(j, s, d)
                       /\ TimeOf(b, s, d) = TimeOf(j, s, d) => b <= j]_vars

\* The second lift has won a request while the first lift was busy.
SecondLiftWon ==
    /\ returned = <<1>>
    /\ lifts[1].requests # <<>>
    /\ lifts[2].requests # <<>>

\* C7: a lift whose requests list grows during requestLift was eligible for
\* the request in the state just before the call.
CommitsOnlyToEligibleLift ==
    [][\A s \in Floors, d \in Floors :
          requestLift(s, d) =>
              \A i \in Ids :
                  Len(lifts'[i].requests) > Len(lifts[i].requests) => i \in Eligible(s, d)]_vars

\* A request has been committed to a lift that was already serving another.
CommittedToBusyLift ==
    \E i \in Ids : returned = <<i - 1>> /\ Len(lifts[i].requests) = 2

AllUpAbove(s) ==
    \A i \in Ids : /\ ~isIdle(lifts[i])
                   /\ lifts[i].direction = "U"
                   /\ lifts[i].currentFloor > s

\* C8: when no lift is eligible, requestLift returns -1 and changes nothing;
\* in particular an Up request starting at s is rejected when every lift is
\* non-idle, moving Up and above s.
RejectionReturnsSentinelAndChangesNothing ==
    [][\A s \in Floors, d \in Floors :
          requestLift(s, d) =>
              /\ Eligible(s, d) = {} =>
                     returned' = <<-1>> /\ lifts' = lifts /\ totalFloors' = totalFloors
              /\ (s < d /\ AllUpAbove(s)) => returned' = <<-1>>]_vars

\* A request has just been rejected with both lifts moving Up above the
\* ground floor.
RejectedWhileAllMovingUp ==
    /\ returned = <<-1>>
    /\ Len(lifts) = 2
    /\ AllUpAbove(0)

\* C9: a successful requestLift appends the request to the winning lift
\* alone, adds one to its passenger count, keeps its floor and leaves every
\* other lift as it was.
CommitTouchesOnlyTheWinner ==
    [][\A s \in Floors, d \in Floors :
          (requestLift(s, d) /\ returned' # <<-1>>) =>
              LET b == returned'[1] + 1
              IN /\ Len(lifts') = Len(lifts)
                 /\ lifts'[b].requests = Append(lifts[b].requests, Request(s, d))
                 /\ lifts'[b].passengers = lifts[b].passengers + 1
                 /\ lifts'[b].currentFloor = lifts[b].currentFloor
                 /\ \A j \in Ids \ {b} : lifts'[j] = lifts[j]]_vars

\* The first lift has won a request while the second lift stays busy elsewhere.
FirstLiftWonBesideBusyLift ==
    /\ returned = <<0>>
    /\ Len(lifts) = 2
    /\ lifts[2].requests # <<>>
    /\ lifts[2].currentFloor > 0

\* C10: the scripted scenario: requestLift(0,3) returns 0, after a tick
\* requestLift(0,2) returns 1, after a second tick requestLift(0,5) returns
\* -1 and then requestLift(1,0) returns 1.
ScriptedScenarioResults ==
    /\ log = SubSeq(Script, 1, 1) => returned = <<0>>
    /\ log = SubSeq(Script, 1, 3) => returned = <<1>>
    /\ log = SubSeq(Script, 1, 5) => returned = <<-1>>
    /\ log = SubSeq(Script, 1, 6) => returned = <<1>>

\* The whole script has run.
ScriptCompleted == log = Script

\* C11: a lift whose passenger count is at the capacity is eligible for no
\* request, whatever its direction and requests, also when it is Idle.
FullLiftRejectsEverything ==
    \A i \in Ids :
        lifts[i].passengers = Capacity =>
            \A s \in Floors, d \in Floors : ~canAddRequest(lifts[i], s, d)

\* A full lift stands Idle with no requests.
FullIdleLift ==
    \E i \in Ids : lifts[i].passengers = Capacity /\ isIdle(lifts[i])

\* The farthest floor up (down) among the start and dest floors of the
\* requests committed to lift l; only used of a lift with requests.
FarthestUp(l) ==
    CHOOSE m \in 0..l.totalFloors :
        /\ \E k \in 1..Len(l.requests) : m \in {l.requests[k].start, l.requests[k].dest}
        /\ \A k \in 1..Len(l.requests) : l.requests[k].start <= m /\ l.requests[k].dest <= m

FarthestDown(l) ==
    CHOOSE m \in 0..l.totalFloors :
        /\ \E k \in 1..Len(l.requests) : m \in {l.requests[k].start, l.requests[k].dest}
        /\ \A k \in 1..Len(l.requests) : l.requests[k].start >= m /\ l.requests[k].dest >= m

\* C12: a lift moving Up whose committed requests reach up to floor M rejects
\* an Up request starting above M and accepts an Up request starting between
\* its current floor and M (the lift being below capacity).
UpSweepIsNotExtended ==
    \A i \in Ids :
        (lifts[i].direction = "U" /\ lifts[i].requests # <<>>
            /\ lifts[i].passengers < Capacity) =>
            \A s \in Floors, d \in Floors :
                s < d =>
                    /\ s > FarthestUp(lifts[i]) => ~canAddRequest(lifts[i], s, d)
                    /\ (lifts[i].currentFloor <= s /\ s <= FarthestUp(lifts[i]))
                           => canAddRequest(lifts[i], s, d)

\* The requests of lift l that a move to `floor` does not bring to their dest floor.
NotArrived(l, floor) ==
    LET elsewhere(r) == r.dest # floor IN SelectSeq(l.requests, elsewhere)

\* C13: a committed request stays in its lift's requests list until a tick
\* brings the lift to the request's dest floor, which removes it: a tick
\* removes exactly the requests whose dest is the new floor, and requestLift
\* removes none.
RequestLeavesOnlyAtItsDestination ==
    [][/\ tick => \A i \in Ids :
                     lifts'[i].requests = NotArrived(lifts[i], lifts'[i].currentFloor)
       /\ \A s \in Floors, d \in Floors :
             requestLift(s, d) =>
                 \A i \in Ids :
                     SubSeq(lifts'[i].requests, 1, Len(lifts[i].requests))
                         = lifts[i].requests]_vars

\* The lifts (0-based) with a pending request that starts or ends at `floor`.
StopsAt(floor) ==
    {i - 1 : i \in {j \in Ids : \E k \in 1..Len(lifts[j].requests) :
                                   \/ lifts[j].requests[k].start = floor
                                   \/ lifts[j].requests[k].dest = floor}}

\* r lists exactly the members of S in ascending order.
IsAscendingListOf(r, S) ==
    /\ \A k \in 1..(Len(r) - 1) : r[k] < r[k + 1]
    /\ {r[k] : k \in 1..Len(r)} = S

\* C14 as amended: getLiftsStoppingOnFloor(floor, direction) returns, in
\* ascending index order, exactly the lifts with a pending request starting
\* or ending at floor whose direction equals the queried one, and for the
\* queried direction 'I' every such lift whatever its direction.
StoppingLiftsWithIdleAsAnyDirection ==
    \A floor \in Floors, moveDirection \in Directions :
        IsAscendingListOf(stoppingLifts(lifts, 0, <<>>, floor, moveDirection),
                          {c \in StopsAt(floor) :
                               moveDirection = "I" \/ lifts[c + 1].direction = moveDirection})

\* The query has returned both lifts although they move in different directions.
BothLiftsReturnedForAnyDirection ==
    /\ returned = <<"getLiftsStoppingOnFloor", <<0, 1>>>>
    /\ lifts[1].direction # lifts[2].direction

\* C14: getLiftsStoppingOnFloor(floor, direction) returns, in ascending index
\* order, exactly the lifts with a pending request starting or ending at
\* floor whose current direction equals the queried direction.
StoppingLiftsOfQueriedDirection ==
    \A floor \in Floors, moveDirection \in Directions :
        IsAscendingListOf(stoppingLifts(lifts, 0, <<>>, floor, moveDirection),
                          {c \in StopsAt(floor) : lifts[c + 1].direction = moveDirection})

\* C16: getLiftStates, getNumberOfPeopleOnLift and getLiftsStoppingOnFloor
\* leave every lift (floor, direction, requests, passengers) and the floor
\* count as they were.
QueriesChangeNothing ==
    [][(Len(returned') = 2
           /\ returned'[1] \in {"getLiftStates", "getNumberOfPeopleOnLift",
                                "getLiftsStoppingOnFloor"})
          => (lifts' = lifts /\ totalFloors' = totalFloors)]_vars

\* The lift states have been read while two lifts in different states serve requests.
StatesReadWhileBusy ==
    /\ Len(returned) = 2
    /\ returned[1] = "getLiftStates"
    /\ Len(lifts) = 2
    /\ lifts[1] # lifts[2]
    /\ lifts[1].requests # <<>>

\* C17: init(floors, n) leaves exactly n lifts with ids 0..n-1, each at floor
\* 0, Idle, with no requests and no passengers, whatever lifts and requests
\* the system held before the call.
InitYieldsFreshLifts ==
    [][\A n \in 1..MaxLifts :
          init(MaxFloors, n) =>
              /\ totalFloors' = MaxFloors
              /\ Len(lifts') = n
              /\ \A i \in 1..n :
                    /\ lifts'[i].id = i - 1
                    /\ lifts'[i].currentFloor = 0
                    /\ lifts'[i].direction = "I"
                    /\ lifts'[i].requests = <<>>
                    /\ lifts'[i].passengers = 0]_vars

\* init has just built the largest number of lifts.
FreshLifts ==
    /\ Len(lifts) = MaxLifts
    /\ returned = <<>>
    /\ \A i \in Ids : lifts[i] = Lift(i - 1, MaxFloors)

\* C18: pickup precedes dropoff: a request that move has taken off the list
\* at its dest floor has had its lift at its start floor since the commit.
CompletedOnlyAfterPickup ==
    \A i \in 1..Len(ledger) : \A k \in 1..Len(ledger[i]) :
        ledger[i][k].completed => ledger[i][k].picked

\* C19: a non-idle lift below capacity whose direction is opposite to the
\* request's rejects the request exactly when its start lies beyond the
\* farthest committed floor: a lift moving Up rejects a Down request exactly
\* when its start is above FarthestUp, a lift moving Down rejects an Up
\* request exactly when its start is below FarthestDown.
OppositeRejectedExactlyBeyondFarthest ==
    \A i \in Ids :
        (lifts[i].requests # <<>> /\ lifts[i].passengers < Capacity) =>
            \A s \in Floors, d \in Floors :
                /\ (lifts[i].direction = "U" /\ s > d) =>
                       (~canAddRequest(lifts[i], s, d) <=> s > FarthestUp(lifts[i]))
                /\ (lifts[i].direction = "D" /\ s < d) =>
                       (~canAddRequest(lifts[i], s, d) <=> s < FarthestDown(lifts[i]))

\* C20: the time to reach the start floor of a request a lift is eligible
\* for is never negative.
TimeOfEligibleLiftIsNotNegative ==
    \A i \in Ids : \A s \in Floors, d \in Floors :
        canAddRequest(lifts[i], s, d) => TimeOf(i, s, d) >= 0

\* C21: no permanent loss of service: whenever every lift is Idle with an
\* empty requests list, requestLift with in-range floors returns a lift id,
\* never -1.
IdleSystemServesEveryRequest ==
    (lifts # <<>> /\ \A i \in Ids : isIdle(lifts[i])) =>
        \A s \in Floors, d \in Floors : bestLiftFor(lifts, s, d) # -1

IdleLiftAcceptsEverything ==
    \A i \in Ids :
        (isIdle(lifts[i]) /\ lifts[i].passengers < Capacity) =>
            \A s \in Floors, d \in Floors : canAddRequest(lifts[i], s, d)

\* An Idle lift standing between floors 0 and the top, with passengers on board.
IdleLiftMidway ==
    \E i \in Ids :
        /\ isIdle(lifts[i])
        /\ lifts[i].currentFloor \notin {0, totalFloors - 1}
        /\ lifts[i].passengers \in 1..(Capacity - 1)

\* The floors lift l stands on or is committed to.
Stops(l) ==
    {l.currentFloor} \cup {l.requests[k].start : k \in 1..Len(l.requests)}
                    \cup {l.requests[k].dest : k \in 1..Len(l.requests)}

\* The turnaround floor: the farthest of Stops(l) in the direction of travel.
TurnaroundFloor(l) ==
    IF l.direction = "U"
    THEN CHOOSE m \in Stops(l) : \A f \in Stops(l) : f <= m
    ELSE CHOOSE m \in Stops(l) : \A f \in Stops(l) : f >= m

\* The reference value of the time to reach `start`.
ReferenceTime(l, start, requestDirection) ==
    LET T == TurnaroundFloor(l)
    IN IF l.direction = "I" THEN Abs(l.currentFloor - start)
       ELSE IF l.direction = "U" /\ requestDirection = "U" /\ start >= l.currentFloor
       THEN start - l.currentFloor
       ELSE IF l.direction = "D" /\ requestDirection = "D" /\ start <= l.currentFloor
       THEN l.currentFloor - start
       ELSE IF l.direction = "U"
       THEN (T - l.currentFloor) + (T - start)
       ELSE (l.currentFloor - T) + (start - T)

\* C24: for every lift state, start floor and request direction,
\* calculateTimeToReach equals the reference value: the distance for an Idle
\* lift, the direct distance for a pickup ahead in the lift's direction, and
\* otherwise the way to the turnaround floor and back to the start floor.
TimeToReachIsReferenceValue ==
    \A i \in Ids : \A s \in Floors, requestDirection \in {"U", "D"} :
        calculateTimeToReach(lifts[i], s, requestDirection)
            = ReferenceTime(lifts[i], s, requestDirection)

\* Lift l has a pending request with a start or dest floor above (below) its floor.
WorkAbove(l) ==
    \E k \in 1..Len(l.requests) :
        l.requests[k].start > l.currentFloor \/ l.requests[k].dest > l.currentFloor

WorkBelow(l) ==
    \E k \in 1..Len(l.requests) :
        l.requests[k].start < l.currentFloor \/ l.requests[k].dest < l.currentFloor

\* C25: direction hysteresis: across a requestLift or a tick, a lift that was
\* going Up and has work above its new floor stays Up even with work below
\* (symmetrically for Down); it leaves its direction only when no pending
\* request has work in that direction, and ends Idle only when no pending
\* request has work in either direction.
DirectionHysteresis ==
    [][\A i \in 1..Min2(Len(lifts), Len(lifts')) :
          /\ (lifts[i].direction = "U" /\ WorkAbove(lifts'[i])) => lifts'[i].direction = "U"
          /\ (lifts[i].direction = "D" /\ WorkBelow(lifts'[i])) => lifts'[i].direction = "D"
          /\ lifts'[i].direction = "I" => (~WorkAbove(lifts'[i]) /\ ~WorkBelow(lifts'[i]))]_vars

\* A tick has left the lift going Up with work both above and below it.
KeptGoingUpWithWorkBelow ==
    /\ returned = <<>>
    /\ \E i \in Ids :
          /\ lifts[i].direction = "U"
          /\ lifts[i].currentFloor > 0
          /\ WorkAbove(lifts[i])
          /\ WorkBelow(lifts[i])

\* C26: a tick moves a lift going Up one floor up, a lift going Down one
\* floor down and leaves an Idle lift on its floor; it then removes the
\* requests whose dest is the new floor, lowering passengers by their number,
\* and the requests whose start is the new floor, so that no request left
\* starts or ends on the lift's floor.
MoveStepsOneFloorAndClearsItsFloor ==
    [][tick =>
          \A i \in Ids :
              LET floor == lifts'[i].currentFloor
                  elsewhere(r) == r.dest # floor /\ r.start # floor
              IN /\ lifts[i].direction = "U" => floor = lifts[i].currentFloor + 1
                 /\ lifts[i].direction = "D" => floor = lifts[i].currentFloor - 1
                 /\ lifts[i].direction = "I" => floor = lifts[i].currentFloor
                 /\ lifts'[i].requests = SelectSeq(lifts[i].requests, elsewhere)
                 /\ lifts'[i].passengers = lifts[i].passengers
                        - Cardinality({k \in 1..Len(lifts[i].requests) :
                                           lifts[i].requests[k].dest = floor})
                 /\ \A k \in 1..Len(lifts'[i].requests) :
                        /\ lifts'[i].requests[k].start # floor
                        /\ lifts'[i].requests[k].dest # floor]_vars

\* A tick has brought the lift to the top floor with a request still to serve.
TickLeftWorkAtTopFloor ==
    /\ returned = <<>>
    /\ \E i \in Ids :
          /\ lifts[i].currentFloor = totalFloors - 1
          /\ lifts[i].currentFloor > 0
          /\ lifts[i].requests # <<>>

\* Every lift has an empty requests list and direction Idle.
Drained == \A i \in Ids : lifts[i].requests = <<>> /\ lifts[i].direction = "I"

\* C27: bounded completion: once 2 * (totalFloors - 1) ticks have been made
\* with no requestLift in between, every lift has an empty requests list and
\* direction Idle, and further ticks keep it so.
DrainedWithinTwoSweeps ==
    Len(log) >= 2 * (totalFloors - 1) => Drained

\* C28: direction always points at pending work: a lift going Up has a
\* pending request with a start or dest floor strictly above its floor, a
\* lift going Down one with a start or dest floor strictly below.
DirectionPointsAtWork ==
    \A i \in Ids :
        /\ lifts[i].direction = "U" => WorkAbove(lifts[i])
        /\ lifts[i].direction = "D" => WorkBelow(lifts[i])

\* A lift has turned round on the top floor and is going Down.
GoingDownFromTopFloor ==
    \E i \in Ids :
        /\ lifts[i].direction = "D"
        /\ lifts[i].currentFloor = totalFloors - 1

\* C29: the time given for a pickup ahead of a moving lift is exact: a request
\* committed to a non-idle lift going the request's way with the start floor
\* strictly ahead finds the lift on its start floor after exactly that many
\* ticks, whatever is committed in the meantime: the lift is always as many
\* floors from the start floor as ticks are still due.
PromisedTimeIsExact ==
    \A k \in 1..Len(ledger) :
        Abs(lifts[ledger[k].lift].currentFloor - ledger[k].start) = ledger[k].due

\* A lift has arrived on a start floor two or more ticks after the promise,
\* with another request committed to it since.
PromiseOfSeveralTicksKept ==
    \E k \in 1..Len(ledger) :
        /\ ledger[k].due = 0
        /\ ledger[k].time >= 2
        /\ ledger[k].joined
        /\ lifts[ledger[k].lift].currentFloor = ledger[k].start

\* The orders in which n lifts can be advanced.
Orders(n) ==
    {order \in [1..n -> 1..n] : \A a, b \in 1..n : order[a] = order[b] => a = b}

\* C30: tick is order-independent across lifts: advancing the lifts one after
\* another in any order of the indices leaves every lift as the tick does.
TickIsOrderIndependent ==
    [][tick => \A order \in Orders(Len(lifts)) : lifts' = moveInOrder(lifts, order)]_vars

\* A tick has moved two lifts that were going opposite ways.
TwoLiftsAdvancedApart ==
    /\ returned = <<>>
    /\ Len(lifts) = 2
    /\ lifts[1].direction = "U" /\ lifts[1].currentFloor > 0
    /\ lifts[2].direction = "D" /\ lifts[2].currentFloor < totalFloors - 1

====
